---- MODULE Spec2Model ----
(***************************************************************************)
(* Model of the PDX text editor core: the line-oriented block parser       *)
(* (parse_content), its inverse (serialize_content), the TextRun           *)
(* constructor and the sample document.                                    *)
(*                                                                         *)
(* Text is a sequence of Unicode code points (naturals), so the tests the  *)
(* code makes on characters (Arabic block, white space, markers) are made  *)
(* on the same values.  Style names and ISO language codes, which the code *)
(* only compares and never scans, are TLA+ strings.                        *)
(***************************************************************************)
EXTENDS Integers, Sequences, FiniteSets, TLC

----------------------------------------------------------------------------
(* Characters the code names                                               *)

LF        == 10
CR        == 13
Space     == 32
Bang      == 33
Hash      == 35
LParen    == 40
RParen    == 41
Dash      == 45
Dot       == 46
Digit0    == 48
EqSign    == 61
LBracket  == 91
RBracket  == 93
Backtick  == 96
Bullet    == 8226
ArabicLo  == 1536
ArabicHi  == 1791
\* width of the `as u8` cast of the heading level
U8Mod     == 256


\* "```", "![", "](", ")", "---", "===", "text"
Fence        == <<Backtick, Backtick, Backtick>>
ImageOpen    == <<Bang, LBracket>>
ImageMid     == <<RBracket, LParen>>
ImageClose   == <<RParen>>
DividerLine  == <<Dash, Dash, Dash>>
PageBreakLine == <<EqSign, EqSign, EqSign>>
TextLanguage == <<116, 101, 120, 116>>

\* the bullet literal of parser.rs and the three-character literal that
\* stands at the same place in the copy of the parser in main.rs
BulletParser == <<Bullet>>
BulletMain   == <<226, 8364, 162>>

----------------------------------------------------------------------------
(* String primitives of the Rust standard library, as the parser uses them *)

\* char::is_whitespace: the Unicode White_Space property
IsWhitespace(c) ==
    \/ c \in 9..13
    \/ c \in {32, 133, 160, 5760, 8232, 8233, 8239, 8287, 12288}
    \/ c \in 8192..8202

\* c >= '\u{0600}' && c <= '\u{06FF}'
IsArabicChar(c) == c >= ArabicLo /\ c <= ArabicHi

\* text.chars().any(|c| c >= '\u{0600}' && c <= '\u{06FF}')
ContainsArabic(s) == \E k \in 1..Len(s) : IsArabicChar(s[k])

\* str::starts_with
StartsWith(s, p) == Len(s) >= Len(p) /\ SubSeq(s, 1, Len(p)) = p

\* number of leading elements of s equal to c: chars().take_while(..).count()
TakeWhileCount(s, c) ==
    CHOOSE n \in 0..Len(s) :
        /\ \A k \in 1..n : s[k] = c
        /\ (n = Len(s) \/ s[n + 1] # c)

\* str::trim_start_matches with a string (or one-character) pattern:
\* the pattern is removed from the front as long as it matches
TrimStartMatches(s, p) ==
    IF p = <<>> THEN s
    ELSE LET m == Len(p)
             n == CHOOSE n \in 0..(Len(s) \div m) :
                      /\ \A k \in 0..(n - 1) : SubSeq(s, k * m + 1, (k + 1) * m) = p
                      /\ ~StartsWith(SubSeq(s, n * m + 1, Len(s)), p)
         IN  SubSeq(s, n * m + 1, Len(s))

\* str::trim_start, str::trim_end, str::trim
TrimStart(s) ==
    LET n == CHOOSE n \in 0..Len(s) :
                 /\ \A k \in 1..n : IsWhitespace(s[k])
                 /\ (n = Len(s) \/ ~IsWhitespace(s[n + 1]))
    IN  SubSeq(s, n + 1, Len(s))

TrimEnd(s) ==
    LET n == CHOOSE n \in 0..Len(s) :
                 /\ \A k \in (Len(s) - n + 1)..Len(s) : IsWhitespace(s[k])
                 /\ (n = Len(s) \/ ~IsWhitespace(s[Len(s) - n]))
    IN  SubSeq(s, 1, Len(s) - n)

Trim(s) == TrimEnd(TrimStart(s))

\* str::find: the 0-based index of the first match, or -1 for None
Find(s, p) ==
    LET hits == {k \in 0..(Len(s) - Len(p)) : SubSeq(s, k + 1, k + Len(p)) = p}
    IN  IF hits = {} THEN -1
        ELSE CHOOSE k \in hits : \A h \in hits : k <= h

\* the slice &s[from..to] with 0-based bounds; the caller checks from <= to
Slice(s, from, to) == SubSeq(s, from + 1, to)

\* [T]::join / Iterator::collect::<Vec<_>>().join(sep)
RECURSIVE Join(_, _)
Join(parts, sep) ==
    IF parts = <<>> THEN <<>>
    ELSE IF Len(parts) = 1 THEN parts[1]
    ELSE parts[1] \o sep \o Join(Tail(parts), sep)

\* Iterator::collect::<String>(): the pieces one after the other
Concat(parts) == Join(parts, <<>>)

\* "#".repeat(n)
Repeat(c, n) == [k \in 1..n |-> c]

\* str::lines: split at "\n", a "\r" directly before it is dropped, and the
\* empty piece after a final "\n" is not a line
RECURSIVE Lines(_)
Lines(text) ==
    IF text = <<>> THEN <<>>
    ELSE LET nl   == Find(text, <<LF>>)
             raw  == IF nl = -1 THEN text ELSE SubSeq(text, 1, nl)
             line == IF nl # -1 /\ raw # <<>> /\ raw[Len(raw)] = CR
                     THEN SubSeq(raw, 1, Len(raw) - 1) ELSE raw
         IN  IF nl = -1 THEN <<line>>
             ELSE <<line>> \o Lines(SubSeq(text, nl + 2, Len(text)))

\* the decimal digits of n, as format!("{}", n) writes them
RECURSIVE Decimal(_)
Decimal(n) ==
    IF n < 10 THEN <<Digit0 + n>>
    ELSE Decimal(n \div 10) \o <<Digit0 + (n % 10)>>


----------------------------------------------------------------------------
(* Document model (data.rs)                                                *)

\* TextRun::new: the direction is derived from the language code alone
TextRun_new(text, language, style) ==
    [text      |-> text,
     language  |-> language,
     direction |-> IF language = "ar" \/ language = "fa" \/ language = "ur"
                   THEN "RTL" ELSE "LTR",
     style     |-> style]

\* the variants of enum Node that occur below a Document
Heading(level, runs, style) ==
    [kind |-> "Heading", level |-> level, runs |-> runs, style |-> style]
Paragraph(runs, style) ==
    [kind |-> "Paragraph", runs |-> runs, style |-> style]
List(ordered, items, style) ==
    [kind |-> "List", ordered |-> ordered, items |-> items, style |-> style]
CodeBlock(language, code, style) ==
    [kind |-> "CodeBlock", language |-> language, code |-> code, style |-> style]
Image(path, alt_text) ==
    [kind |-> "Image", path |-> path, alt_text |-> alt_text,
     width |-> "None", height |-> "None"]
Divider   == [kind |-> "Divider"]
PageBreak == [kind |-> "PageBreak"]
ListItem(content) == [content |-> content]

\* format!("heading{}", level)
HeadingStyle(level) == "heading" \o ToString(level)

\* LanguageOf, testing only the first character of the text
LanguageOf_FirstChar(text) ==
    IF text # <<>> /\ IsArabicChar(text[1]) THEN "ar" ELSE "en"

\* if is_arabic { "ar" } else { "en" }
LanguageOf(text) == IF ContainsArabic(text) THEN "ar" ELSE "en"

----------------------------------------------------------------------------
(* serialize_content (parser.rs)                                           *)

\* runs.iter().map(|r| r.text.clone()).collect::<Vec<_>>().join(" ")
RunsText(runs) == Join([k \in 1..Len(runs) |-> runs[k].text], <<Space>>)

\* one item line of a List: the marker, a space, the item's text
SerializeItem(ordered, k, item) ==
    (IF ordered THEN Decimal(k) \o <<Dot>> ELSE <<Dash>>)
        \o <<Space>> \o RunsText(item.content)

\* the arm of serialize_content for one block below the Document
SerializeNode(node) ==
    CASE node.kind = "Heading" ->
            Repeat(Hash, node.level) \o <<Space>> \o RunsText(node.runs)
      [] node.kind = "Paragraph" -> RunsText(node.runs)
      [] node.kind = "List" ->
            Join([k \in 1..Len(node.items) |->
                      SerializeItem(node.ordered, k, node.items[k])], <<LF>>)
      [] node.kind = "CodeBlock" ->
            Fence \o node.language \o <<LF>> \o node.code \o <<LF>> \o Fence
      [] node.kind = "Image" ->
            ImageOpen \o node.alt_text \o ImageMid \o node.path \o ImageClose
      [] node.kind = "Divider" -> DividerLine
      [] node.kind = "PageBreak" -> PageBreakLine

\* the Document arm: the children's texts joined by "\n\n"
serialize_content(children) ==
    Join([k \in 1..Len(children) |-> SerializeNode(children[k])], <<LF, LF>>)

----------------------------------------------------------------------------
(* parse_content (parser.rs, and its copy in main.rs)                      *)

\* The two copies of the parser differ in the bullet literal and in the
\* image branch, which only parser.rs has.
Copies == {"parser", "main"}
BulletOf(copy)   == IF copy = "parser" THEN BulletParser ELSE BulletMain
HasImages(copy)  == copy = "parser"

\* line.starts_with('-') || line.starts_with("•")
IsListLine(line, copy) ==
    StartsWith(line, <<Dash>>) \/ StartsWith(line, BulletOf(copy))

\* the while loop of the code-fence branch: lines are pushed untrimmed until
\* a line whose trimmed form starts with the fence, or the end of the input
\* FenceLoop, pushing each code line trimmed
RECURSIVE FenceLoop_Trimmed(_, _, _)
FenceLoop_Trimmed(lines, i, code_lines) ==
    IF i < Len(lines) /\ ~StartsWith(Trim(lines[i + 1]), Fence)
    THEN FenceLoop_Trimmed(lines, i + 1, Append(code_lines, Trim(lines[i + 1])))
    ELSE [i |-> i, code_lines |-> code_lines]

RECURSIVE FenceLoop(_, _, _)
FenceLoop(lines, i, code_lines) ==
    IF i < Len(lines) /\ ~StartsWith(Trim(lines[i + 1]), Fence)
    THEN FenceLoop(lines, i + 1, Append(code_lines, lines[i + 1]))
    ELSE [i |-> i, code_lines |-> code_lines]

\* line.trim_start_matches('-').trim_start_matches("•").trim()
ItemText(line, copy) ==
    Trim(TrimStartMatches(TrimStartMatches(line, <<Dash>>), BulletOf(copy)))

\* ListLoop, stepping back by one line itself when it has taken an item
RECURSIVE ListLoop_Rewinding(_, _, _, _)
ListLoop_Rewinding(lines, i, items, copy) ==
    IF i < Len(lines) /\ IsListLine(Trim(lines[i + 1]), copy)
    THEN LET text == ItemText(Trim(lines[i + 1]), copy)
         IN  ListLoop_Rewinding(lines, i + 1,
                      Append(items, ListItem(<<TextRun_new(text, LanguageOf(text),
                                                           "paragraph")>>)),
                      copy)
    ELSE [i |-> IF items = <<>> THEN i ELSE i - 1, items |-> items]

\* the while loop of the list branch: one item per list line, until a line
\* that is not a list line, or the end of the input
RECURSIVE ListLoop(_, _, _, _)
ListLoop(lines, i, items, copy) ==
    IF i < Len(lines) /\ IsListLine(Trim(lines[i + 1]), copy)
    THEN LET text == ItemText(Trim(lines[i + 1]), copy)
         IN  ListLoop(lines, i + 1,
                      Append(items, ListItem(<<TextRun_new(text, LanguageOf(text),
                                                           "paragraph")>>)),
                      copy)
    ELSE [i |-> i, items |-> items]

\* the level of a heading line: the count of leading '#', cast to u8
HeadingLevel(line) == TakeWhileCount(line, Hash) % U8Mod

\* the result of one iteration of the outer loop
Step(i, children, panicked) ==
    [i |-> i, children |-> children, panicked |-> panicked]

\* the image branch; it is entered when the line has "![" , "](" and ")".
\* A slice whose start is beyond its end aborts the program.
ImageBranch(line, i, children) ==
    LET close_bracket == Find(line, ImageMid)
        close_paren   == Find(line, ImageClose)
    IN  IF 2 > close_bracket \/ close_bracket + 2 > close_paren
        THEN Step(i, children, TRUE)
        ELSE Step(i + 1,
                  Append(children,
                         Image(Slice(line, close_bracket + 2, close_paren),
                               Slice(line, 2, close_bracket))),
                  FALSE)

\* the if / else-if chain after the image branch, with the final i += 1
BlockBranch(lines, line, i, children, copy) ==
    IF StartsWith(line, <<Hash>>) THEN
        LET level == HeadingLevel(line)
            text  == Trim(TrimStartMatches(line, <<Hash>>))
        IN  Step(i + 1,
                 Append(children,
                        Heading(level,
                                <<TextRun_new(text, LanguageOf(text),
                                              HeadingStyle(level))>>,
                                HeadingStyle(level))),
                 FALSE)
    ELSE IF StartsWith(line, Fence) THEN
        LET language == Trim(TrimStartMatches(line, <<Backtick>>))
            r        == FenceLoop(lines, i + 1, <<>>)
        IN  Step(r.i + 1,
                 Append(children,
                        CodeBlock(IF language = <<>> THEN TextLanguage ELSE language,
                                  Join(r.code_lines, <<LF>>), "code")),
                 FALSE)
    ELSE IF IsListLine(line, copy) THEN
        LET r == ListLoop(lines, i, <<>>, copy)
        IN  \* i -= 1 on an unsigned index, then i += 1
            IF r.i = 0 THEN Step(i, children, TRUE)
            ELSE Step((r.i - 1) + 1,
                      Append(children, List(FALSE, r.items, "list")), FALSE)
    ELSE IF line = DividerLine THEN
        Step(i + 1, Append(children, Divider), FALSE)
    ELSE IF line = PageBreakLine THEN
        Step(i + 1, Append(children, PageBreak), FALSE)
    ELSE
        LET is_arabic == ContainsArabic(line)
            style     == IF is_arabic THEN "arabic" ELSE "paragraph"
        IN  Step(i + 1,
                 Append(children,
                        Paragraph(<<TextRun_new(line, LanguageOf(line), style)>>,
                                  style)),
                 FALSE)

\* the body of `while i < lines.len()`, for the line at index i
LoopBody(lines, i, children, copy) ==
    LET line == Trim(lines[i + 1])
    IN  IF line = <<>> THEN Step(i + 1, children, FALSE)
        ELSE IF /\ HasImages(copy)
                /\ StartsWith(line, ImageOpen)
                /\ Find(line, ImageMid) # -1
                /\ Find(line, ImageClose) # -1
             THEN ImageBranch(line, i, children)
             ELSE BlockBranch(lines, line, i, children, copy)

----------------------------------------------------------------------------
(* create_sample_document (data.rs): the run texts, code point by code     *)
(* point, and the content tree                                             *)

\* "Welcome to PDX Editor"
SampleTitle ==
    <<87, 101, 108, 99, 111, 109, 101, 32, 116, 111, 32, 80, 68, 88, 32,
      69, 100, 105, 116, 111, 114>>

\* "PDX is a modern document format with full Arabic support, re..."
SampleIntro ==
    <<80, 68, 88, 32, 105, 115, 32, 97, 32, 109, 111, 100, 101, 114, 110,
      32, 100, 111, 99, 117, 109, 101, 110, 116, 32, 102, 111, 114, 109,
      97, 116, 32, 119, 105, 116, 104, 32, 102, 117, 108, 108, 32, 65,
      114, 97, 98, 105, 99, 32, 115, 117, 112, 112, 111, 114, 116, 44, 32,
      114, 101, 97, 108, 32, 80, 68, 70, 47, 80, 78, 71, 32, 101, 120,
      112, 111, 114, 116, 44, 32, 97, 110, 100, 32, 97, 32, 99, 111, 109,
      102, 111, 114, 116, 97, 98, 108, 101, 32, 116, 104, 101, 109, 101,
      32, 102, 111, 114, 32, 108, 111, 110, 103, 32, 119, 114, 105, 116,
      105, 110, 103, 32, 115, 101, 115, 115, 105, 111, 110, 115, 46>>

\* "?????? ?? ?? ???? PDX" (? stands for a non-ASCII letter)
SampleArabicTitle ==
    <<1605, 1585, 1581, 1576, 1575, 1611, 32, 1576, 1603, 32, 1601, 1610,
      32, 1605, 1581, 1585, 1585, 32, 80, 68, 88>>

\* "??? ?????? ???? ????? ??????? ???? ???? ?? ??????? ?? ??????..." (? stands for a non-ASCII letter)
SampleArabicIntro ==
    <<1607, 1584, 1575, 32, 1575, 1604, 1605, 1581, 1585, 1585, 32, 1610,
      1583, 1593, 1605, 32, 1575, 1604, 1604, 1594, 1577, 32, 1575, 1604,
      1593, 1585, 1576, 1610, 1577, 32, 1576, 1588, 1603, 1604, 32, 1603,
      1575, 1605, 1604, 32, 1605, 1593, 32, 1575, 1604, 1603, 1578, 1575,
      1576, 1577, 32, 1605, 1606, 32, 1575, 1604, 1610, 1605, 1610, 1606,
      32, 1573, 1604, 1609, 32, 1575, 1604, 1610, 1587, 1575, 1585, 46,
      32, 1610, 1605, 1603, 1606, 1603, 32, 1603, 1578, 1575, 1576, 1577,
      32, 1575, 1604, 1605, 1587, 1578, 1606, 1583, 1575, 1578, 32, 1576,
      1575, 1604, 1593, 1585, 1576, 1610, 1577, 32, 1576, 1587, 1607,
      1608, 1604, 1577, 32, 1578, 1575, 1605, 1577, 46>>

\* "New Features - ???????? ???????" (? stands for a non-ASCII letter)
SampleFeatures ==
    <<78, 101, 119, 32, 70, 101, 97, 116, 117, 114, 101, 115, 32, 45, 32,
      1575, 1604, 1605, 1605, 1610, 1586, 1575, 1578, 32, 1575, 1604,
      1580, 1583, 1610, 1583, 1577>>

\* "Real PDF export with Arabic font embedding"
SampleItem1 ==
    <<82, 101, 97, 108, 32, 80, 68, 70, 32, 101, 120, 112, 111, 114, 116,
      32, 119, 105, 116, 104, 32, 65, 114, 97, 98, 105, 99, 32, 102, 111,
      110, 116, 32, 101, 109, 98, 101, 100, 100, 105, 110, 103>>

\* "PNG image export for sharing"
SampleItem2 ==
    <<80, 78, 71, 32, 105, 109, 97, 103, 101, 32, 101, 120, 112, 111, 114,
      116, 32, 102, 111, 114, 32, 115, 104, 97, 114, 105, 110, 103>>

\* "Image embedding support in documents"
SampleItem3 ==
    <<73, 109, 97, 103, 101, 32, 101, 109, 98, 101, 100, 100, 105, 110,
      103, 32, 115, 117, 112, 112, 111, 114, 116, 32, 105, 110, 32, 100,
      111, 99, 117, 109, 101, 110, 116, 115>>

\* "Comfort theme - optimized for long writing sessions"
SampleItem4 ==
    <<67, 111, 109, 102, 111, 114, 116, 32, 116, 104, 101, 109, 101, 32,
      45, 32, 111, 112, 116, 105, 109, 105, 122, 101, 100, 32, 102, 111,
      114, 32, 108, 111, 110, 103, 32, 119, 114, 105, 116, 105, 110, 103,
      32, 115, 101, 115, 115, 105, 111, 110, 115>>

create_sample_document ==
    << Heading(1, <<TextRun_new(SampleTitle, "en", "heading1")>>, "heading1"),
       Paragraph(<<TextRun_new(SampleIntro, "en", "paragraph")>>, "paragraph"),
       Divider,
       Heading(2, <<TextRun_new(SampleArabicTitle, "ar", "heading2")>>, "heading2"),
       Paragraph(<<TextRun_new(SampleArabicIntro, "ar", "arabic")>>, "arabic"),
       Divider,
       Heading(2, <<TextRun_new(SampleFeatures, "en", "heading2")>>, "heading2"),
       List(FALSE,
            << ListItem(<<TextRun_new(SampleItem1, "en", "paragraph")>>),
               ListItem(<<TextRun_new(SampleItem2, "en", "paragraph")>>),
               ListItem(<<TextRun_new(SampleItem3, "en", "paragraph")>>),
               ListItem(<<TextRun_new(SampleItem4, "en", "paragraph")>>) >>,
            "list") >>

----------------------------------------------------------------------------
(* Text shaping (pdx_text.rs)                                              *)

\* U+FE70, the first code point of the Arabic presentation forms
FormsB == 65136

\* has_arabic, testing only the first character of the input
has_arabic_FirstChar(input) == input # <<>> /\ IsArabicChar(input[1])

\* let has_arabic = input.chars().any(|c| ('\u{0600}'..='\u{06FF}').contains(&c))
has_arabic(input) == \E k \in 1..Len(input) : IsArabicChar(input[k])

\* is_arabic: text.chars().any(|c| ('\u{0600}'..='\u{06FF}').contains(&c))
is_arabic(text) == \E k \in 1..Len(text) : IsArabicChar(text[k])

\* detect_direction
detect_direction(text) == IF is_arabic(text) THEN "RTL" ELSE "LTR"

\* ArabicReshaper::reshape: every character of the Arabic block is replaced
\* by a presentation form.  The model keeps which character it was and not
\* which of its contextual forms the library picks.
reshape(input) ==
    [k \in 1..Len(input) |->
        IF IsArabicChar(input[k]) THEN FormsB + (input[k] - ArabicLo)
        ELSE input[k]] \o <<>>

\* the bidi class of a character, as far as the model tells them apart:
\* right-to-left letters, white space (neutral), everything else left-to-right
IsRtlChar(c) ==
    IsArabicChar(c) \/ (c >= FormsB /\ c <= FormsB + (ArabicHi - ArabicLo))

\* BidiInfo::new(&shaped, None): the paragraph level follows the first strong
\* character; a right-to-left letter has level 1, white space the paragraph
\* level, any other character level 0 or, in a right-to-left paragraph, 2
BidiLevels(s) ==
    LET strong == {k \in 1..Len(s) : ~IsWhitespace(s[k])}
        base   == IF strong = {} THEN 0
                  ELSE LET f == CHOOSE k \in strong : \A h \in strong : k <= h
                       IN  IF IsRtlChar(s[f]) THEN 1 ELSE 0
    IN  [k \in 1..Len(s) |->
            IF IsRtlChar(s[k]) THEN 1
            ELSE IF IsWhitespace(s[k]) THEN base
            ELSE 2 * base]

\* every maximal stretch of characters of level m or more is reversed:
\* the stretch around k lies between the nearest lower levels on either side
ReverseRuns(s, lv, m) ==
    LET n     == Len(s)
        stops == {j \in 1..n : lv[j] < m}
        lo(k) == LET b == {j \in stops : j < k}
                 IN  IF b = {} THEN 1
                     ELSE 1 + CHOOSE j \in b : \A h \in (j + 1)..(k - 1) : h \notin stops
        hi(k) == LET a == {j \in stops : j > k}
                 IN  IF a = {} THEN n
                     ELSE (CHOOSE j \in a : \A h \in (k + 1)..(j - 1) : h \notin stops) - 1
    IN  [k \in 1..n |->
            IF lv[k] < m THEN s[k] ELSE s[lo(k) + hi(k) - k]] \o <<>>

\* bidi.reorder_line(para, 0..shaped.len()): from the highest level down to
\* level 1 the stretches of that level or more are reversed.  Level 2 is the
\* highest level, so the first reversal moves no level.
reorder_line(shaped) ==
    LET lv == BidiLevels(shaped) \o <<>>
    IN  ReverseRuns(ReverseRuns(shaped, lv, 2), lv, 1)

\* pdx_text: text without a character of the Arabic block is returned as it
\* is, any other text is reshaped and put into visual order
pdx_text(input) ==
    IF ~has_arabic(input) THEN input
    ELSE reorder_line(reshape(input))

----------------------------------------------------------------------------
(* Style sheet (data.rs)                                                   *)

\* EdgeInsets::new
EdgeInsets(top, right, bottom, left) ==
    [top |-> top, right |-> right, bottom |-> bottom, left |-> left]

\* #[derive(Default)] for Style: every number is 0, every enum its default
Style_default ==
    [font_size   |-> 0,
     font_weight |-> "Normal",
     color       |-> [r |-> 0, g |-> 0, b |-> 0],
     text_align  |-> "Start",
     direction   |-> "Auto",
     line_height |-> 0,
     margin      |-> EdgeInsets(0, 0, 0, 0),
     padding     |-> EdgeInsets(0, 0, 0, 0)]

\* the four styles StyleSheet::default seeds; line_height is in tenths
SeededStyles ==
    [heading1  |-> [Style_default EXCEPT !.font_size = 28,
                        !.font_weight = "Bold",
                        !.margin = EdgeInsets(12, 0, 16, 0)],
     heading2  |-> [Style_default EXCEPT !.font_size = 22,
                        !.font_weight = "Bold",
                        !.color = [r |-> 40, g |-> 40, b |-> 40],
                        !.margin = EdgeInsets(10, 0, 12, 0)],
     paragraph |-> [Style_default EXCEPT !.font_size = 16,
                        !.line_height = 18,
                        !.margin = EdgeInsets(0, 0, 10, 0)],
     arabic    |-> [Style_default EXCEPT !.font_size = 18,
                        !.line_height = 20,
                        !.direction = "RTL"]]

\* StyleSheet::default: the map from style name to Style
StyleSheet_default == SeededStyles

\* the look-up done as styles.entry(style).or_default(): a missing name is
\* inserted with the default Style
style_def_Entry(styles, style) ==
    [style  |-> IF style \in DOMAIN styles THEN styles[style] ELSE Style_default,
     styles |-> [n \in DOMAIN styles \cup {style} |->
                    IF n \in DOMAIN styles THEN styles[n] ELSE Style_default]]

\* styles.styles.get(style).cloned().unwrap_or_default(): the Style found,
\* and the style sheet as the look-up leaves it
style_def(styles, style) ==
    [style  |-> IF style \in DOMAIN styles THEN styles[style] ELSE Style_default,
     styles |-> styles]

----------------------------------------------------------------------------
(* render_node (renderer.rs)                                               *)

\* the zoom factor 1.0; zoom factors are counted in tenths, and so are the
\* sizes and spaces of the preview, which are multiples of the zoom factor
ZoomOne == 10

\* the sizes render_node has built in
ListSize      == 16
ListSpace     == 10
LanguageSize  == 11
CodeSize      == 13
BlockSpace    == 10
PageBreakSpace == 20

\* the unordered marker, the placeholder of a missing image, the page break
BulletMarker    == <<Bullet>>
PlaceholderOpen ==
    <<128444, 65039, Space, LBracket, 73, 109, 97, 103, 101, 58, Space>>
PlaceholderClose == <<RBracket>>
PageBreakLabel ==
    <<8212, Space, 80, 97, 103, 101, Space, 66, 114, 101, 97, 107, Space, 8212>>

\* the widgets render_node adds to the ui
Label(text, size, look, layout) ==
    [widget |-> "label", text |-> text, size |-> size, look |-> look,
     layout |-> layout]
AddSpace(amount) ==
    [widget |-> "space", text |-> <<>>, size |-> amount, look |-> "",
     layout |-> ""]
Separator ==
    [widget |-> "separator", text |-> <<>>, size |-> 0, look |-> "",
     layout |-> ""]
ImageWidget(path) ==
    [widget |-> "image", text |-> path, size |-> 0, look |-> "",
     layout |-> ""]

Reverse(s) == [k \in 1..Len(s) |-> s[Len(s) + 1 - k]]

\* runs.iter().any(|r| r.direction == Direction::RTL)
IsRtl(runs) == \E k \in 1..Len(runs) : runs[k].direction = "RTL"

\* one label per run, each text through pdx_text: in a right-to-left layout
\* and in reverse order when some run is RTL, else in order
RunLabels(runs, size, look) ==
    IF IsRtl(runs)
    THEN [k \in 1..Len(runs) |->
             Label(pdx_text(Reverse(runs)[k].text), size, look, "rtl")]
    ELSE [k \in 1..Len(runs) |->
             Label(pdx_text(runs[k].text), size, look, "ltr")]

\* the item with 0-based index k of a List
RenderItem(ordered, k, item, zoom) ==
    IF IsRtl(item.content)
    THEN RunLabels(item.content, ListSize * zoom, "")
         \o <<Label(IF ordered THEN <<Dot>> \o Decimal(k + 1) ELSE BulletMarker,
                    ListSize * zoom, "", "rtl")>>
    ELSE <<Label(IF ordered THEN Decimal(k + 1) \o <<Dot>> ELSE BulletMarker,
                 ListSize * zoom, "", "ltr")>>
         \o RunLabels(item.content, ListSize * zoom, "")

\* the arm of render_node for one block below the Document: the widgets it
\* adds, and the style sheet afterwards
RenderBlock(node, styles, zoom, images) ==
    CASE node.kind \in {"Heading", "Paragraph"} ->
            LET d == style_def(styles, node.style)
            IN  [widgets |->
                     <<AddSpace(d.style.margin.top * zoom)>>
                     \o RunLabels(node.runs, d.style.font_size * zoom,
                                  IF node.kind = "Heading" THEN "strong" ELSE "")
                     \o <<AddSpace(d.style.margin.bottom * zoom)>>,
                 styles |-> d.styles]
      [] node.kind = "List" ->
            [widgets |->
                 Concat([k \in 1..Len(node.items) |->
                            RenderItem(node.ordered, k - 1, node.items[k], zoom)])
                 \o <<AddSpace(ListSpace * zoom)>>,
             styles |-> styles]
      [] node.kind = "CodeBlock" ->
            [widgets |->
                 <<AddSpace(BlockSpace * ZoomOne),
                   Label(node.language, LanguageSize * zoom, "italics", "group"),
                   Label(node.code, CodeSize * zoom, "code", "group"),
                   AddSpace(BlockSpace * ZoomOne)>>,
             styles |-> styles]
      [] node.kind = "Image" ->
            [widgets |->
                 <<AddSpace(BlockSpace * ZoomOne),
                   IF node.path \in images THEN ImageWidget(node.path)
                   ELSE Label(PlaceholderOpen \o node.alt_text \o PlaceholderClose,
                              0, "italics", ""),
                   AddSpace(BlockSpace * ZoomOne)>>,
             styles |-> styles]
      [] node.kind = "Divider" ->
            [widgets |->
                 <<AddSpace(BlockSpace * ZoomOne), Separator,
                   AddSpace(BlockSpace * ZoomOne)>>,
             styles |-> styles]
      [] node.kind = "PageBreak" ->
            [widgets |->
                 <<AddSpace(PageBreakSpace * ZoomOne), Separator,
                   Label(PageBreakLabel, 0, "italics weak", ""), Separator,
                   AddSpace(PageBreakSpace * ZoomOne)>>,
             styles |-> styles]

\* the Document arm: the children are rendered in order
RECURSIVE RenderFrom(_, _, _, _, _, _)
RenderFrom(children, k, widgets, styles, zoom, images) ==
    IF k > Len(children) THEN [widgets |-> widgets, styles |-> styles]
    ELSE LET r == RenderBlock(children[k], styles, zoom, images)
         IN  RenderFrom(children, k + 1, widgets \o r.widgets, r.styles,
                        zoom, images)

render_node(children, styles, zoom, images) ==
    RenderFrom(children, 1, <<>>, styles, zoom, images)

----------------------------------------------------------------------------
(* export_as_html (export.rs)                                              *)

\* runs.iter().map(|r| r.text.clone()).collect::<String>()
RunsConcat(runs) == Concat([k \in 1..Len(runs) |-> runs[k].text])

\* if is_rtl { "rtl" } else { "ltr" }
DirClass(runs) == IF IsRtl(runs) THEN "rtl" ELSE "ltr"

\* One element of the markup.  The markup is kept as a sequence of elements
\* and not as one string; a text stands in its element exactly as
\* format! writes it, without escaping.
Element(tag, class, text, lang, src, items) ==
    [tag |-> tag, class |-> class, text |-> text, lang |-> lang, src |-> src,
     items |-> items]

\* the arm of node_to_html for one block below the Document
node_to_html(node) ==
    CASE node.kind = "Heading" ->
            Element("h" \o ToString(node.level), DirClass(node.runs),
                    RunsConcat(node.runs), <<>>, <<>>, <<>>)
      [] node.kind = "Paragraph" ->
            Element("p", DirClass(node.runs), RunsConcat(node.runs),
                    <<>>, <<>>, <<>>)
      [] node.kind = "List" ->
            Element(IF node.ordered THEN "ol" ELSE "ul", "", <<>>, <<>>, <<>>,
                    [k \in 1..Len(node.items) |->
                        Element("li", DirClass(node.items[k].content),
                                RunsConcat(node.items[k].content),
                                <<>>, <<>>, <<>>)])
      [] node.kind = "CodeBlock" ->
            Element("pre code", "language", node.code, node.language, <<>>, <<>>)
      [] node.kind = "Image" ->
            Element("img", "", node.alt_text, <<>>, node.path, <<>>)
      [] node.kind = "Divider" ->
            Element("hr", "", <<>>, <<>>, <<>>, <<>>)
      [] node.kind = "PageBreak" ->
            Element("hr", "double", <<>>, <<>>, <<>>, <<>>)

\* the body export_as_html writes: children.iter().map(node_to_html).collect()
export_as_html(children) ==
    [k \in 1..Len(children) |-> node_to_html(children[k])]

----------------------------------------------------------------------------
(* export_as_pdf (export.rs)                                               *)

\* the top of the page, the left and right anchors and the item indent, in mm
PdfTop        == 270
PdfXStart     == 20
PdfXRight     == 190
PdfItemIndent == 5

\* the font sizes and the steps of the vertical position
PdfHeading1   == 24
PdfHeading2   == 20
PdfHeadingN   == 16
PdfTextSize   == 12
PdfHeadingGap == 10
PdfParagraphStep == 20
PdfItemStep   == 15
PdfListGap    == 5
PdfDividerStep == 20

\* match level { 1 => 24.0, 2 => 20.0, _ => 16.0 }
PdfHeadingSize(level) ==
    IF level = 1 THEN PdfHeading1
    ELSE IF level = 2 THEN PdfHeading2 ELSE PdfHeadingN

\* layer.use_text(text, size, Mm(x), Mm(y), font) on the only page and layer
UseText(text, size, x, y) ==
    [text |-> text, size |-> size, x |-> x, y |-> y, page |-> 1, layer |-> 1]

\* the item loop of the List arm
RECURSIVE PdfItems(_, _, _, _, _)
PdfItems(ordered, items, k, ops, y) ==
    IF k > Len(items) THEN [ops |-> ops, y |-> y]
    ELSE LET marker    == IF ordered THEN Decimal(k) \o <<Dot>> ELSE BulletMarker
             full_text == marker \o <<Space>> \o RunsConcat(items[k].content)
         IN  PdfItems(ordered, items, k + 1,
                      Append(ops, UseText(pdx_text(full_text), PdfTextSize,
                                          PdfXStart + PdfItemIndent, y)),
                      y - PdfItemStep)

\* the arm of render_node_to_pdf for one block below the Document: the
\* texts placed so far and the vertical position afterwards
PdfBlock(node, ops, y) ==
    CASE node.kind = "Heading" ->
            LET font_size == PdfHeadingSize(node.level)
                x_pos     == IF IsRtl(node.runs) THEN PdfXRight ELSE PdfXStart
            IN  [ops |-> Append(ops, UseText(pdx_text(RunsConcat(node.runs)),
                                             font_size, x_pos, y)),
                 y   |-> y - (font_size \div 2 + PdfHeadingGap)]
      [] node.kind = "Paragraph" ->
            LET x_pos == IF IsRtl(node.runs) THEN PdfXRight ELSE PdfXStart
            IN  [ops |-> Append(ops, UseText(pdx_text(RunsConcat(node.runs)),
                                             PdfTextSize, x_pos, y)),
                 y   |-> y - PdfParagraphStep]
      [] node.kind = "List" ->
            LET r == PdfItems(node.ordered, node.items, 1, ops, y)
            IN  [ops |-> r.ops, y |-> r.y - PdfListGap]
      [] node.kind = "Divider"   -> [ops |-> ops, y |-> y - PdfDividerStep]
      [] node.kind = "PageBreak" -> [ops |-> ops, y |-> PdfTop]
      [] OTHER -> [ops |-> ops, y |-> y]

\* the Document arm of render_node_to_pdf
RECURSIVE PdfFrom(_, _, _, _)
PdfFrom(children, k, ops, y) ==
    IF k > Len(children) THEN ops
    ELSE LET r == PdfBlock(children[k], ops, y)
         IN  PdfFrom(children, k + 1, r.ops, r.y)

\* export_as_pdf: Err when the font cannot be added or the file cannot be
\* put together, else the texts placed on the page
export_as_pdf(children, ok) ==
    IF ok THEN [ok |-> TRUE, ops |-> PdfFrom(children, 1, <<>>, PdfTop)]
    ELSE [ok |-> FALSE, ops |-> <<>>]

----------------------------------------------------------------------------
(* Metadata (data.rs) and AppTheme (theme.rs)                              *)

\* the fields of Metadata the editor can change; the time stamps and the
\* keywords are only shown
Metadata(title, author, language) ==
    [title |-> title, author |-> author, language |-> language]

\* Metadata::default
Metadata_default == Metadata("Untitled Document", "", "en")

\* the metadata of create_sample_document
SampleMetadata == Metadata("PDX Demo Document", "PDX Editor", "en")

\* AppTheme::all_themes and AppTheme::default
all_themes == {"Light", "Dark", "Midnight", "Sepia", "Comfort"}
AppTheme_default == "Comfort"

----------------------------------------------------------------------------
(* Input texts                                                             *)

\* bounds of the input families
MaxLines      == 3
MaxFenceLines == 3
MaxImageToks  == 4

\* the letters the inputs are built from: Latin a and b, Arabic alef and ba
Letters == [a |-> 97, b |-> 98, alef |-> 1575, ba |-> 1576]
LatA == Letters.a
LatB == Letters.b
Alef == Letters.alef
Ba   == Letters.ba

SeqsUpTo(S, n) == UNION {[1..k -> S] : k \in 0..n}

\* one-line texts: every prefix followed by every body
LinePrefixes ==
    { <<>>, <<Space>>, <<Hash>>, Repeat(Hash, 6), Repeat(Hash, 7),
      Repeat(Hash, U8Mod - 1), Repeat(Hash, U8Mod), Repeat(Hash, U8Mod + 1),
      <<Dash>>, <<Dash, Dash>>, DividerLine, <<Dash, Dash, Dash, Dash>>,
      BulletParser, <<Dash, Bullet>>, <<Bullet, Dash>>, BulletMain,
      Fence, Fence \o <<Backtick>>, Fence \o <<Space, Backtick>>,
      ImageOpen, PageBreakLine, <<EqSign, EqSign>> }
LineBodies ==
    { <<>>, <<LatA>>, <<Space, LatA, Space>>, <<Alef>>, <<LatA, Space, Alef, Ba>>,
      <<Space, Hash, LatA>>, <<Space, Dash, LatA>> }
SingleLineTexts == {p \o b : p \in LinePrefixes, b \in LineBodies}

\* image lines: "![" followed by up to MaxImageToks tokens
ImageTokens == {<<LatA>>, <<LatB>>, ImageMid, ImageClose, <<Space>>}
ImageTexts  == {ImageOpen \o Concat(t) : t \in SeqsUpTo(ImageTokens, MaxImageToks)}

\* texts of up to MaxLines lines of every kind of block
StructLines ==
    { <<>>, <<Dash, Space, LatA>>, <<Bullet, Alef, Space>>, <<Dash>>,
      <<Hash, Space, Ba, LatA>>, Fence, <<LatA>>, <<Space, Alef, Ba, Space>>,
      PageBreakLine, ImageOpen \o <<LatA>> \o ImageMid \o <<LatB>> \o ImageClose }
StructTexts == {Join(ls, <<LF>>) : ls \in SeqsUpTo(StructLines, MaxLines)}

\* code fences: an opening line and up to MaxFenceLines following lines
FenceOpeners ==
    { Fence, Fence \o <<LatA>>, <<Space>> \o Fence \o <<Space, LatA, Space>>,
      Fence \o <<Backtick, LatA>>, Fence \o <<Space, Backtick, LatA>> }
FenceLines ==
    { <<>>, <<Space, LatA, Space>>, <<Hash, LatA>>, <<Dash, LatA>>,
      ImageOpen \o <<LatA>> \o ImageMid \o <<LatB>> \o ImageClose,
      DividerLine, Fence, <<Space>> \o Fence \o <<LatB>> }
FenceTexts ==
    {Join(<<o>> \o ls, <<LF>>) : o \in FenceOpeners,
                                ls \in SeqsUpTo(FenceLines, MaxFenceLines)}

\* an image line whose ')' comes before its "](", after up to MaxLines - 1
\* lines of a list or of paragraphs
BadImageLine == ImageOpen \o ImageClose \o ImageMid
AbortTexts ==
    {Join(ls \o <<BadImageLine>>, <<LF>>) :
        ls \in SeqsUpTo({<<Dash, Space, LatA>>, <<LatA>>}, MaxLines - 1)}

\* the text the editor starts with: serialize_content of the sample document
SampleText == serialize_content(create_sample_document)

\* the texts handed to each copy of the parser
ParserInputs ==
    SingleLineTexts \cup ImageTexts \cup StructTexts \cup FenceTexts
        \cup AbortTexts \cup {SampleText}
MainInputs == SingleLineTexts \cup StructTexts
InputsFor(c) == IF c = "parser" THEN ParserInputs ELSE MainInputs

----------------------------------------------------------------------------
(* The editor session, as far as parsing goes                              *)

VARIABLES
    copy,         \* which copy of parse_content runs: parser.rs or main.rs
    raw_content,  \* PdxApp.raw_content, the text buffer
    content,      \* PdxApp.document.content: the children of the Document
    lines,        \* parse_content: lines
    i,            \* parse_content: the scan index
    children,     \* parse_content: children
    pc,           \* "idle", "loop" (inside parse_content) or "panic"
    round,        \* 0 before the edit, 1 for parse(x), 2 for the reparse
    first,        \* the children parse_content returned in round 1
    styles,       \* PdxApp.document.styles.styles
    path,         \* PdxApp.path: "None" or the file name
    last_save,    \* PdxApp.last_save: "None" or "Some"
    status_message,   \* PdxApp.status_message
    loaded_images,    \* the keys of PdxApp.loaded_images
    load_log,     \* the paths image::open was called with in the last frame
    opened,       \* the paths image::open was called with in earlier frames
    preview,      \* the widgets render_node added when the editor tab was
                  \* last shown
    written,      \* the files fs::write wrote in the last frame
    metadata,     \* PdxApp.document.metadata: title, author and language
    zoom_level,   \* PdxApp.zoom_level, in tenths
    theme         \* PdxApp.theme

vars == <<copy, raw_content, content, lines, i, children, pc, round, first,
          styles, path, last_save, status_message, loaded_images, load_log,
          opened, preview, written, metadata, zoom_level, theme>>

\* what the view menu, the theme menu and the metadata tab work on
view == <<metadata, zoom_level, theme>>

\* the fields of the session parse_content does not touch
session == <<styles, path, last_save, status_message, loaded_images, load_log,
             opened, preview, written, metadata, zoom_level, theme>>

\* PdxApp::default
Init ==
    /\ copy = "parser"
    /\ content = create_sample_document
    /\ raw_content = serialize_content(create_sample_document)
    /\ lines = <<>>
    /\ i = 0
    /\ children = <<>>
    /\ pc = "idle"
    /\ round = 0
    /\ first = <<>>
    /\ styles = StyleSheet_default
    /\ path = "None"
    /\ last_save = "None"
    /\ status_message = "Ready"
    /\ loaded_images = {}
    /\ load_log = <<>>
    /\ opened = {}
    /\ preview = <<>>
    /\ written = <<>>
    /\ metadata = SampleMetadata
    /\ zoom_level = ZoomOne
    /\ theme = AppTheme_default

\* the text edit changed the buffer to x: parse_content(&self.raw_content)
\* is entered
Edit(c, x) ==
    /\ pc = "idle"
    /\ round = 0
    /\ copy' = c
    /\ raw_content' = x
    /\ lines' = Lines(x)
    /\ i' = 0
    /\ children' = <<>>
    /\ pc' = "loop"
    /\ round' = 1
    /\ UNCHANGED <<content, first>>
    /\ UNCHANGED session

\* one iteration of `while i < lines.len()`
ParseIteration ==
    /\ pc = "loop"
    /\ i < Len(lines)
    /\ LET r == LoopBody(lines, i, children, copy)
       IN  /\ i' = r.i
           /\ children' = r.children
           /\ pc' = IF r.panicked THEN "panic" ELSE "loop"
    /\ UNCHANGED <<copy, raw_content, content, lines, round, first>>
    /\ UNCHANGED session

\* the loop ends: Node::Document { children } is returned and assigned to
\* self.document.content
ParseReturn ==
    /\ pc = "loop"
    /\ i >= Len(lines)
    /\ content' = children
    /\ first' = IF round = 1 THEN children ELSE first
    /\ pc' = "idle"
    /\ UNCHANGED <<copy, raw_content, lines, i, children, round>>
    /\ UNCHANGED session

\* the buffer is rebuilt from the tree, serialize_content(&document.content),
\* and parsed again
RoundTrip ==
    /\ pc = "idle"
    /\ round = 1
    /\ copy = "parser"
    /\ raw_content' = serialize_content(content)
    /\ lines' = Lines(raw_content')
    /\ i' = 0
    /\ children' = <<>>
    /\ pc' = "loop"
    /\ round' = 2
    /\ UNCHANGED <<copy, content, first>>
    /\ UNCHANGED session

\* any edit of the untouched buffer, by either build of the parser
EditAny ==
    /\ pc = "idle"
    /\ round = 0
    /\ \E c \in Copies : \E x \in InputsFor(c) : Edit(c, x)

Next ==
    \/ EditAny
    \/ ParseIteration
    \/ ParseReturn
    \/ RoundTrip

Spec == Init /\ [][Next]_vars

----------------------------------------------------------------------------
(* The editor session, frame by frame (app.rs, ui.rs)                      *)

\* how many image lines Insert Image may have added to one buffer
MaxInserts == 1

\* the files the dialogs return, and the image files that can be opened
OpenFile   == "notes.pdx"
SaveFile   == "document.pdx"
HtmlFile   == "export.html"
PdfFile    == "export.pdf"
PngFile    == "document.png"
ImageFiles == {<<LatA>>}

\* the paths the image dialog returns
PickedPaths ==
    { <<LatA>>, <<LatB>>, <<LatA, RParen, LatB>>, <<LatB, RBracket, LParen>> }

\* the texts typed into the editor
TypedTexts ==
    { <<>>,
      Fence,
      Join(<<Fence \o <<LatA>>, <<LatB>>>>, <<LF>>),
      Join(<<Fence, <<LatA>>, Fence>>, <<LF>>),
      Join(<<<<Hash, Space, Alef, Ba>>, <<LatA, LatB>>>>, <<LF>>),
      <<LatA, Space, Ba>>,
      ImageOpen \o <<LatB>> \o ImageMid \o <<LatB>> \o ImageClose,
      Join(<<ImageOpen \o <<LatA>> \o ImageMid \o <<LatA>> \o ImageClose,
             ImageOpen \o <<LatB>> \o ImageMid \o <<LatB>> \o ImageClose,
             ImageOpen \o <<LatB>> \o ImageMid \o <<LatB>> \o ImageClose>>,
           <<LF>>),
      Join(<<<<Dash, Space, LatA>>, <<LatB>>>>, <<LF>>),
      BadImageLine,
      <<Hash, Hash, Hash, Space, LatA>> }

\* how many paragraphs the longest document of the files has
MaxParagraphs == 15

\* the documents the files hold
ArabicRun      == TextRun_new(<<Alef, Ba>>, "ar", "arabic")
LatinRun       == TextRun_new(<<LatA, LatB>>, "en", "paragraph")
MislabelledRun == TextRun_new(<<Ba, Alef>>, "en", "paragraph")
FileDocs ==
    { [content |->
           << Heading(3, <<LatinRun, ArabicRun>>, "title"),
              Paragraph(<<MislabelledRun>>, "paragraph"),
              CodeBlock(<<LatA>>, <<Alef, LF, LatB>>, "code"),
              Image(<<LatB>>, <<LatA, LatB>>) >>,
       styles |-> SeededStyles,
       metadata |-> Metadata("Notes", "", "ar")],
      [content |->
           << List(TRUE, << ListItem(<<ArabicRun>>),
                            ListItem(<<LatinRun, LatinRun>>) >>, "list"),
              PageBreak,
              Image(<<LatA>>, <<LatB>>),
              Divider,
              Paragraph(<<LatinRun>>, "body") >>,
       styles |-> [paragraph |-> [Style_default EXCEPT !.font_size = 12]],
       metadata |-> Metadata_default],
      [content |->
           << Image(<<LatB>>, <<>>),
              Paragraph(<<ArabicRun, LatinRun>>, "arabic"),
              Image(<<LatB>>, <<LatA>>) >>,
       styles |-> SeededStyles,
       metadata |-> Metadata("Notes", "PDX Editor", "fr")],
      [content |->
           << Heading(3, <<LatinRun, ArabicRun>>, "title"),
              Paragraph(<<MislabelledRun>>, "paragraph"),
              CodeBlock(<<LatA>>, <<Alef, LF, LatB>>, "code"),
              Image(<<LatB>>, <<LatA, LatB>>) >>,
       styles |-> [title     |-> [Style_default EXCEPT !.font_size = 40],
                   paragraph |-> [Style_default EXCEPT !.font_size = 9]],
       metadata |-> Metadata("Notes", "", "ar")],
      [content |-> [k \in 1..MaxParagraphs |->
                       Paragraph(<<LatinRun>>, "paragraph")],
       styles |-> SeededStyles,
       metadata |-> Metadata_default] }

\* parse_content run from its first line to its return or its panic
RECURSIVE ParseFrom(_, _, _)
ParseFrom(ls, k, ch) ==
    IF k >= Len(ls) THEN [panicked |-> FALSE, children |-> ch]
    ELSE LET r == LoopBody(ls, k, ch, "parser")
         IN  IF r.panicked THEN [panicked |-> TRUE, children |-> ch]
             ELSE ParseFrom(ls, r.i, r.children)

parse_content(text) == ParseFrom(Lines(text), 0, <<>>)

\* collect_image_paths: the paths of the Image nodes below the Document
RECURSIVE collect_image_paths(_)
collect_image_paths(nodes) ==
    IF nodes = <<>> THEN <<>>
    ELSE (IF Head(nodes).kind = "Image" THEN <<Head(nodes).path>> ELSE <<>>)
         \o collect_image_paths(Tail(nodes))

\* the loop of load_images_from_content: image::open is called for every
\* path that is not a key of loaded_images, and the path becomes a key when
\* the call returns Ok
RECURSIVE LoadLoop(_, _, _, _)
LoadLoop(paths, k, loaded, log) ==
    IF k > Len(paths) THEN [loaded |-> loaded, log |-> log]
    ELSE IF paths[k] \in loaded THEN LoadLoop(paths, k + 1, loaded, log)
    ELSE IF paths[k] \in ImageFiles
         THEN LoadLoop(paths, k + 1, loaded \cup {paths[k]},
                       Append(log, paths[k]))
    ELSE LoadLoop(paths, k + 1, loaded, Append(log, paths[k]))

load_images_from_content(nodes, loaded) ==
    LoadLoop(collect_image_paths(nodes), 1, loaded, <<>>)

\* the fields of parse_content's run, which a frame leaves alone
scan == <<copy, lines, i, children, round, first>>

\* render_editor_tab in Split mode: the images of the tree `before` are
\* loaded and at the end the tree `after` is rendered in the preview, at the
\* zoom factor of the frame
render_editor_tab(before, after, sheet, zoom, images) ==
    LET l == load_images_from_content(before, images)
        r == render_node(after, sheet, zoom, l.loaded)
    IN  /\ loaded_images' = l.loaded
        /\ load_log' = l.log
        /\ opened' = opened \cup {load_log[n] : n \in 1..Len(load_log)}
        /\ preview' = r.widgets
        /\ styles' = r.styles

\* a panic ends the session where it stands
Panic ==
    /\ pc' = "panic"
    /\ UNCHANGED <<content, scan, session>>

\* a frame in which nothing is clicked or typed
Refresh ==
    /\ pc = "idle"
    /\ render_editor_tab(content, content, styles, zoom_level, loaded_images)
    /\ written' = <<>>
    /\ UNCHANGED <<raw_content, content, pc, scan, path, last_save,
                   status_message, view>>

\* a frame in which the text edit changes the buffer to x
TypeText(x) ==
    /\ raw_content' = x
    /\ LET r == parse_content(x)
       IN  IF r.panicked THEN Panic
           ELSE /\ content' = r.children
                /\ render_editor_tab(content, r.children, styles, zoom_level,
                                     loaded_images)
                /\ written' = <<>>
                /\ UNCHANGED <<pc, scan, path, last_save, status_message,
                               view>>

\* File > New: *self = Self::default()
MenuNew ==
    /\ pc = "idle"
    /\ content' = create_sample_document
    /\ raw_content' = serialize_content(create_sample_document)
    /\ path' = "None"
    /\ last_save' = "None"
    /\ status_message' = "New document created"
    /\ render_editor_tab(create_sample_document, create_sample_document,
                         StyleSheet_default, ZoomOne, {})
    /\ written' = <<>>
    /\ metadata' = SampleMetadata
    /\ zoom_level' = ZoomOne
    /\ theme' = AppTheme_default
    /\ UNCHANGED <<pc, scan>>

\* the outcomes of open_document: the dialog is cancelled, the file cannot
\* be read, its text is no document, or it holds the document d
OpenOutcomes == {"cancel", "read_error", "decode_error", "ok"}

\* open_document, naming the file before it has been read and decoded
OpenedPath_Early(o) == IF o = "cancel" THEN path ELSE OpenFile

\* the path field after File > Open
OpenedPath(o) == IF o = "ok" THEN OpenFile ELSE path

\* File > Open
MenuOpen(o, d) ==
    /\ path' = OpenedPath(o)
    /\ IF o = "ok"
       THEN /\ content' = d.content
            /\ metadata' = d.metadata
            /\ raw_content' = serialize_content(d.content)
            /\ status_message' = "Opened: " \o OpenFile
            /\ render_editor_tab(d.content, d.content, d.styles, zoom_level,
                              loaded_images)
       ELSE /\ render_editor_tab(content, content, styles, zoom_level, loaded_images)
            /\ UNCHANGED <<content, raw_content, status_message, metadata>>
    /\ written' = <<>>
    /\ UNCHANGED <<pc, scan, last_save, zoom_level, theme>>

\* one call of fs::write
FileWrite(file, kind, html, pdf) ==
    [file |-> file, kind |-> kind, html |-> html, pdf |-> pdf]

\* the outcomes of save_document and of export_html
WriteOutcomes == {"cancel", "write_error", "ok"}

\* save_document and the two menu items that call it: the dialog is asked
\* only when no file is given
Save(o, given, word) ==
    LET file == IF given = "None" THEN SaveFile ELSE given
    IN  /\ o = "cancel" => given = "None"
        /\ IF o = "ok"
           THEN /\ path' = file
                /\ last_save' = "Some"
                /\ status_message' = word \o file
                /\ written' = <<FileWrite(file, "pdx", <<>>, <<>>)>>
           ELSE /\ written' = <<>>
                /\ UNCHANGED <<path, last_save, status_message>>
        /\ render_editor_tab(content, content, styles, zoom_level, loaded_images)
        /\ UNCHANGED <<raw_content, content, pc, scan, view>>

\* File > Save and File > Save As
MenuSave(o)   == Save(o, path, "Saved: ")
MenuSaveAs(o) == Save(o, "None", "Saved as: ")

\* File > Export as > HTML
MenuExportHtml(o) ==
    /\ IF o = "ok"
       THEN /\ status_message' = "Exported as HTML"
            /\ written' = <<FileWrite(HtmlFile, "html",
                                      export_as_html(content), <<>>)>>
       ELSE /\ written' = <<>>
            /\ UNCHANGED status_message
    /\ render_editor_tab(content, content, styles, zoom_level, loaded_images)
    /\ UNCHANGED <<raw_content, content, pc, scan, path, last_save, view>>

\* the outcomes of export_pdf_file and export_png_file
ExportOutcomes == {"cancel", "export_error", "write_error", "ok"}

\* File > Export as > PDF, taking the size of every text from the style
\* sheet entry "paragraph"
MenuExportPdf_Styled(o) ==
    /\ LET pdf == export_as_pdf(content, o \in {"write_error", "ok"})
           d   == style_def(styles, "paragraph")
       IN  IF o = "ok"
           THEN /\ status_message' = "Exported as PDF with Arabic support"
                /\ written' =
                       <<FileWrite(PdfFile, "pdf", <<>>,
                                   [k \in 1..Len(pdf.ops) |->
                                       [pdf.ops[k] EXCEPT
                                           !.size = d.style.font_size]])>>
           ELSE /\ status_message' = "PDF export failed"
                /\ written' = <<>>
    /\ render_editor_tab(content, content, styles, zoom_level, loaded_images)
    /\ UNCHANGED <<raw_content, content, pc, scan, path, last_save, view>>

\* File > Export as > PDF
MenuExportPdf(o) ==
    /\ LET pdf == export_as_pdf(content, o \in {"write_error", "ok"})
       IN  IF o = "ok"
           THEN /\ status_message' = "Exported as PDF with Arabic support"
                /\ written' = <<FileWrite(PdfFile, "pdf", <<>>, pdf.ops)>>
           ELSE /\ status_message' = "PDF export failed"
                /\ written' = <<>>
    /\ render_editor_tab(content, content, styles, zoom_level, loaded_images)
    /\ UNCHANGED <<raw_content, content, pc, scan, path, last_save, view>>

\* File > Export as > PNG Image
MenuExportPng(o) ==
    /\ IF o = "ok"
       THEN /\ status_message' = "Exported as PNG image"
            /\ written' = <<FileWrite(PngFile, "png", <<>>, <<>>)>>
       ELSE /\ status_message' = "PNG export failed"
            /\ written' = <<>>
    /\ render_editor_tab(content, content, styles, zoom_level, loaded_images)
    /\ UNCHANGED <<raw_content, content, pc, scan, path, last_save, view>>

\* format!("\n![Image]({})\n", image_path)
InsertOpen == ImageOpen \o <<73, 109, 97, 103, 101>> \o ImageMid
image_markup(image_path) == <<LF>> \o InsertOpen \o image_path \o <<RParen, LF>>

\* the lines of the buffer that look like inserted image lines
InsertedLines(text) ==
    LET ls == Lines(text)
    IN  Cardinality({k \in 1..Len(ls) : StartsWith(ls[k], InsertOpen)})

\* File > Insert Image: the dialog is cancelled or returns image_path
MenuInsertImage(o, image_path) ==
    IF o = "ok"
    THEN /\ raw_content' = raw_content \o image_markup(image_path)
         /\ LET r == parse_content(raw_content')
            IN  IF r.panicked THEN Panic
                ELSE /\ content' = r.children
                     /\ status_message' = "Image inserted"
                     /\ render_editor_tab(r.children, r.children, styles,
                                          zoom_level, loaded_images)
                     /\ written' = <<>>
                     /\ UNCHANGED <<pc, scan, path, last_save, view>>
    ELSE /\ render_editor_tab(content, content, styles, zoom_level, loaded_images)
         /\ written' = <<>>
         /\ UNCHANGED <<raw_content, content, pc, scan, path, last_save,
                        status_message, view>>

\* how many steps of Zoom In a session that writes takes
MaxZooms == 1

\* the bounds of the zoom factor and its step, in tenths; the f32 sums of
\* the program differ from the tenths by rounding, the bounds are exact
ZoomMin  == 5
ZoomMax  == 25
ZoomStep == 1

Min(a, b) == IF a < b THEN a ELSE b
Max(a, b) == IF a > b THEN a ELSE b

\* a frame in which the view menu sets the zoom factor to z; the editor tab
\* of the same frame is drawn with it
Zoom(z) ==
    /\ pc = "idle"
    /\ zoom_level' = z
    /\ render_editor_tab(content, content, styles, z, loaded_images)
    /\ written' = <<>>
    /\ UNCHANGED <<raw_content, content, pc, scan, path, last_save,
                   status_message, metadata, theme>>

\* View > Zoom In and Reset
ZoomIn    == Zoom(Min(zoom_level + ZoomStep, ZoomMax))
ZoomReset == Zoom(ZoomOne)

\* View > Zoom Out, without its floor
ZoomOut_Unfloored == Zoom(zoom_level - ZoomStep)

\* View > Zoom Out
ZoomOut == Zoom(Max(zoom_level - ZoomStep, ZoomMin))

\* the message of the theme menu
ThemeMessage(t) ==
    "Theme changed to " \o
        (IF t = "Comfort" THEN "Comfort (Eye-friendly for long sessions)" ELSE t)

\* Theme > one of the five themes
MenuTheme(t) ==
    /\ theme' = t
    /\ status_message' = ThemeMessage(t)
    /\ render_editor_tab(content, content, styles, zoom_level, loaded_images)
    /\ written' = <<>>
    /\ UNCHANGED <<raw_content, content, pc, scan, path, last_save, metadata,
                   zoom_level>>

\* the titles typed into the metadata tab and the languages of its combo box
TypedTitles       == {"Notes"}
MetadataLanguages == {"ar", "en", "fr"}

\* a frame that shows the metadata tab, in which one of its fields is
\* edited; the editor tab is not drawn in such a frame
MetadataEdit(field, value) ==
    /\ metadata' = [metadata EXCEPT ![field] = value]
    /\ written' = <<>>
    /\ UNCHANGED <<raw_content, content, pc, scan, styles, path, last_save,
                   status_message, loaded_images, load_log, opened, preview,
                   zoom_level, theme>>

\* the frames, each with the inputs and outcomes it can have
TypeAny == pc = "idle" /\ \E x \in TypedTexts : TypeText(x)
OpenAny == pc = "idle" /\ \E o \in OpenOutcomes : \E d \in FileDocs : MenuOpen(o, d)
SaveAny == pc = "idle" /\ \E o \in WriteOutcomes : MenuSave(o)
SaveAsAny == pc = "idle" /\ \E o \in WriteOutcomes : MenuSaveAs(o)
ExportHtmlAny == pc = "idle" /\ \E o \in WriteOutcomes : MenuExportHtml(o)
ExportPdfAny == pc = "idle" /\ \E o \in ExportOutcomes : MenuExportPdf(o)
ExportPngAny == pc = "idle" /\ \E o \in ExportOutcomes : MenuExportPng(o)
InsertAny ==
    /\ pc = "idle"
    /\ InsertedLines(raw_content) < MaxInserts
    /\ \E o \in {"cancel", "ok"} : \E p \in PickedPaths : MenuInsertImage(o, p)

ZoomNear == zoom_level < ZoomOne + MaxZooms /\ ZoomIn
ThemeAny == pc = "idle" /\ \E t \in all_themes : MenuTheme(t)
MetadataAny ==
    /\ pc = "idle"
    /\ \/ \E t \in TypedTitles : MetadataEdit("title", t)
       \/ \E l \in MetadataLanguages : MetadataEdit("language", l)

\* the frames of a session that works on files: documents are created,
\* opened, saved and exported
FileFrame ==
    \/ Refresh
    \/ MenuNew
    \/ OpenAny
    \/ SaveAny
    \/ SaveAsAny
    \/ ExportHtmlAny
    \/ ExportPdfAny
    \/ ExportPngAny

Files == Init /\ [][FileFrame]_vars

\* the frames of a session that edits: text is typed and images are inserted
EditFrame ==
    \/ Refresh
    \/ TypeAny
    \/ InsertAny

Editing == Init /\ [][EditFrame]_vars

\* the frames of a session that looks at the document: the zoom factor is
\* changed, text is typed and the document is started anew
ViewFrame ==
    \/ Refresh
    \/ TypeAny
    \/ MenuNew
    \/ ZoomIn
    \/ ZoomOut
    \/ ZoomReset

Viewing == Init /\ [][ViewFrame]_vars

\* the frames of a session that writes: text is typed between changes of
\* the theme, of the metadata and, within MaxZooms steps, of the zoom factor
WriteFrame ==
    \/ Refresh
    \/ TypeAny
    \/ ThemeAny
    \/ MetadataAny
    \/ ZoomNear
    \/ ZoomReset

Writing == Init /\ [][WriteFrame]_vars

----------------------------------------------------------------------------
(* Properties                                                              *)

\* parse_content is about to run one iteration of its loop on the line at i
AtLine == pc = "loop" /\ i < Len(lines)
\* that line, trimmed
CurLine == Trim(lines[i + 1])
\* the block the iteration pushed
Pushed == children'[Len(children')]
PushedOne == Len(children') = Len(children) + 1
                 /\ SubSeq(children', 1, Len(children)) = children

\* the length of the run of c at the front of s
LeadingRun(s, c) == Cardinality({n \in 1..Len(s) : \A k \in 1..n : s[k] = c})
\* s without its first n elements
Drop(s, n) == SubSeq(s, n + 1, Len(s))

\* the runs of a block, and of a tree
NodeRuns(node) ==
    IF node.kind \in {"Heading", "Paragraph"}
    THEN {node.runs[k] : k \in 1..Len(node.runs)}
    ELSE IF node.kind = "List"
    THEN UNION {{node.items[k].content[m] : m \in 1..Len(node.items[k].content)}
                    : k \in 1..Len(node.items)}
    ELSE {}
TreeRuns(tree) == UNION {NodeRuns(tree[k]) : k \in 1..Len(tree)}

\* C1: for every text x, parse_content(serialize_content(parse_content(x)))
\* equals parse_content(x): when the reparse of the serialized tree has
\* returned, the tree equals the tree of the first parse.
C1_RoundTripLaw ==
    (copy = "parser" /\ round = 2 /\ pc = "idle") => content = first

\* C2: parse_content never fails: no input makes it abort, neither in the
\* alt/path slices of the image branch nor in the `i -= 1` of the list branch.
C2_NeverFails == pc # "panic"

\* C3: a line whose trimmed form is "---" is parsed to one Divider, and a
\* line whose trimmed form is "===" to one PageBreak.
C3_DividerAndPageBreak ==
    [][(AtLine /\ copy = "parser") =>
          /\ CurLine = DividerLine => (PushedOne /\ Pushed = Divider)
          /\ CurLine = PageBreakLine => (PushedOne /\ Pushed = PageBreak)]_vars

\* C4: a line whose trimmed form starts with n >= 1 '#' is parsed to one
\* Heading of level n, for every n, with style and run style heading{n} and
\* one run holding the rest of the line, trimmed.
C4_HeadingLevelIsCount ==
    [][(AtLine /\ copy = "parser" /\ StartsWith(CurLine, <<Hash>>)) =>
          LET n == LeadingRun(CurLine, Hash)
          IN  /\ PushedOne
              /\ Pushed.kind = "Heading"
              /\ Pushed.level = n
              /\ Pushed.style = "heading" \o ToString(n)
              /\ Len(Pushed.runs) = 1
              /\ Pushed.runs[1].style = "heading" \o ToString(n)
              /\ Pushed.runs[1].text = Trim(Drop(CurLine, n))]_vars

\* C5: every Heading of a document tree of the program, parsed or sample,
\* has a level in 1..6.
C5_LevelClamped ==
    copy = "parser" =>
        \A k \in 1..Len(content) :
            content[k].kind = "Heading" => content[k].level \in 1..6

\* C6: every TextRun of a document tree has direction RTL exactly when its
\* text contains a character of U+0600..U+06FF, and LTR otherwise.
C6_DirectionFollowsScript ==
    copy = "parser" =>
        \A r \in TreeRuns(content) :
            /\ r.direction \in {"LTR", "RTL"}
            /\ r.direction = "RTL" <=> ContainsArabic(r.text)

\* the prefix test of the list branch, with the bullet glyph U+2022
GlyphListLine(l) == StartsWith(l, <<Dash>>) \/ StartsWith(l, <<Bullet>>)
\* the index after the run of list lines that starts at index from
ListEnd(ls, from) ==
    CHOOSE j \in (from + 1)..Len(ls) :
        /\ \A k \in from..(j - 1) : GlyphListLine(Trim(ls[k + 1]))
        /\ (j = Len(ls) \/ ~GlyphListLine(Trim(ls[j + 1])))
\* a list line without its marker (the dashes, then the bullets, at its
\* front), trimmed
MarkerStripped(l) ==
    LET d == LeadingRun(l, Dash)
        b == LeadingRun(Drop(l, d), Bullet)
    IN  Trim(Drop(l, d + b))

\* C7: a line whose trimmed form starts with '-' or the bullet glyph begins
\* a List; it and the list lines directly after it become the items of one
\* unordered List, one item per line in input order, each item one run
\* holding the line without its marker, trimmed.  Stated of both copies of
\* the parser.
C7_ListLines ==
    [][(AtLine /\ GlyphListLine(CurLine)) =>
          LET j == ListEnd(lines, i)
          IN  /\ PushedOne
              /\ Pushed.kind = "List"
              /\ Pushed.ordered = FALSE
              /\ Len(Pushed.items) = j - i
              /\ \A k \in 1..(j - i) :
                    /\ Len(Pushed.items[k].content) = 1
                    /\ Pushed.items[k].content[1].text
                           = MarkerStripped(Trim(lines[i + k]))]_vars

\* the index of the line that closes the fence opened at index from, or the
\* number of lines when no line closes it
FenceEnd(ls, from) ==
    CHOOSE j \in (from + 1)..Len(ls) :
        /\ \A k \in (from + 1)..(j - 1) : ~StartsWith(Trim(ls[k + 1]), Fence)
        /\ (j = Len(ls) \/ StartsWith(Trim(ls[j + 1]), Fence))
\* the effect of a fence line whose language token is lang: one CodeBlock
\* holding the lines up to the closing fence, untrimmed, and the scan
\* resumes after the closing fence
FenceEffect(lang) ==
    LET j == FenceEnd(lines, i)
    IN  /\ PushedOne
        /\ Pushed.kind = "CodeBlock"
        /\ Pushed.language = (IF lang = <<>> THEN TextLanguage ELSE lang)
        /\ Pushed.code = Join(SubSeq(lines, i + 2, j), <<LF>>)
        /\ i' = j + 1

C9_ImageLines ==
    [][(AtLine /\ copy = "parser" /\ StartsWith(CurLine, ImageOpen)) =>
          /\ \A a \in 2..(Len(CurLine) - 3) :
                LET alt  == SubSeq(CurLine, 3, a)
                    dest == SubSeq(CurLine, a + 3, Len(CurLine) - 1)
                IN  (/\ SubSeq(CurLine, a + 1, a + 2) = ImageMid
                     /\ CurLine[Len(CurLine)] = RParen
                     /\ Find(alt \o <<RBracket>>, ImageMid) = -1
                     /\ Find(dest, ImageClose) = -1)
                    => (PushedOne /\ Pushed = Image(dest, alt))
          /\ (Find(CurLine, ImageMid) = -1 \/ Find(CurLine, ImageClose) = -1)
                => /\ PushedOne
                   /\ Pushed.kind = "Paragraph"
                   /\ Len(Pushed.runs) = 1
                   /\ Pushed.runs[1].text = CurLine]_vars

\* the language, direction and style of a run follow the Arabic test on the
\* line it was built from
RunFollows(run, line, arabicStyle, style) ==
    LET ar == \E k \in 1..Len(line) : line[k] \in 1536..1791
    IN  /\ run.language = (IF ar THEN "ar" ELSE "en")
        /\ run.direction = (IF ar THEN "RTL" ELSE "LTR")
        /\ run.style = (IF ar THEN arabicStyle ELSE style)

\* C10: a line parsed as a Paragraph gives language "ar", direction RTL and
\* node and run style "arabic" when it contains a character of
\* U+0600..U+06FF, and "en", LTR, "paragraph" otherwise; the run of a Heading
\* and of each List item follows the same test for language and direction
\* and keeps the style heading{level}, respectively "paragraph" (the List
\* keeps "list").
C10_ArabicDetection ==
    [][(AtLine /\ copy = "parser" /\ PushedOne) =>
          /\ Pushed.kind = "Paragraph" =>
                /\ RunFollows(Pushed.runs[1], lines[i + 1], "arabic", "paragraph")
                /\ Pushed.style = Pushed.runs[1].style
          /\ Pushed.kind = "Heading" =>
                /\ RunFollows(Pushed.runs[1], lines[i + 1],
                              "heading" \o ToString(Pushed.level),
                              "heading" \o ToString(Pushed.level))
                /\ Pushed.style = Pushed.runs[1].style
          /\ Pushed.kind = "List" =>
                /\ Pushed.style = "list"
                /\ \A k \in 1..Len(Pushed.items) :
                      RunFollows(Pushed.items[k].content[1], lines[i + k],
                                 "paragraph", "paragraph")]_vars

\* a tree under construction with an Arabic Paragraph and a List with an
\* Arabic item
C10_Witness ==
    /\ copy = "parser" /\ round = 1
    /\ \E k \in 1..Len(children) :
          /\ children[k].kind = "Paragraph"
          /\ children[k].style = "arabic"
          /\ children[k].runs[1].direction = "RTL"
    /\ \E k \in 1..Len(children) :
          /\ children[k].kind = "List"
          /\ \E m \in 1..Len(children[k].items) :
                children[k].items[m].content[1].language = "ar"

----------------------------------------------------------------------------
(* Properties of the session                                               *)

\* the labels of the preview
PreviewTexts ==
    {preview[k].text : k \in {n \in 1..Len(preview) : preview[n].widget = "label"}}

\* C11: a text without a character of U+0600..U+06FF comes out of pdx_text
\* unchanged - the preview shows the run as it is - and the test pdx_text
\* makes is the negation of is_arabic: detect_direction says LTR exactly for
\* the texts pdx_text returns on its fast path.  (Before the first frame
\* nothing has been shown.)
C11_FastPath ==
    (pc = "idle" /\ preview # <<>>) =>
        \A r \in TreeRuns(content) :
            /\ ~is_arabic(r.text) =>
                  pdx_text(r.text) = r.text /\ r.text \in PreviewTexts
            /\ (detect_direction(r.text) = "LTR") <=> ~has_arabic(r.text)

\* the preview of a tree with a Latin run, shown as it is, and an Arabic run,
\* shown shaped
C11_Witness ==
    /\ pc = "idle"
    /\ \E r \in TreeRuns(content) :
          ~is_arabic(r.text) /\ r.text # <<>> /\ r.text \in PreviewTexts
    /\ \E r \in TreeRuns(content) :
          /\ is_arabic(r.text)
          /\ pdx_text(r.text) # r.text
          /\ pdx_text(r.text) \in PreviewTexts

\* the style sheets a document is created or opened with
Sheets == {StyleSheet_default} \cup {d.styles : d \in FileDocs}

\* the widgets of the preview
PreviewWidgets == {preview[k] : k \in 1..Len(preview)}

\* the Headings and Paragraphs of the tree
StyledBlocks ==
    {content[k] : k \in {n \in 1..Len(content) :
                            content[n].kind \in {"Heading", "Paragraph"}}}

\* the Style the block is to be drawn with: the stored one, or the default
StoredOrDefault(name) ==
    IF name \in DOMAIN styles THEN styles[name] ELSE Style_default

\* C12: resolving a style name never fails and never changes the style
\* sheet: a Heading or Paragraph whose name is in the sheet is drawn with the
\* stored Style, one whose name is missing with the default Style (font size
\* and margins 0), and the missing name is not put into the sheet.
C12_StyleResolution ==
    /\ pc = "idle"
    /\ styles \in Sheets
    /\ preview # <<>> =>
          \A b \in StyledBlocks :
              LET st == StoredOrDefault(b.style)
              IN  /\ AddSpace(st.margin.top * ZoomOne) \in PreviewWidgets
                  /\ AddSpace(st.margin.bottom * ZoomOne) \in PreviewWidgets
                  /\ \A k \in 1..Len(b.runs) :
                        \E w \in PreviewWidgets :
                            /\ w.widget = "label"
                            /\ w.text = pdx_text(b.runs[k].text)
                            /\ w.size = st.font_size * ZoomOne

\* the preview of a tree with a Heading whose style name is missing, drawn
\* with size 0, and a Paragraph whose style name is in the sheet
C12_Witness ==
    /\ preview # <<>>
    /\ \E b \in StyledBlocks :
          /\ b.style \notin DOMAIN styles
          /\ b.runs # <<>>
          /\ \E w \in PreviewWidgets :
                w.widget = "label" /\ w.text = pdx_text(b.runs[1].text) /\ w.size = 0
    /\ \E b \in StyledBlocks :
          /\ b.style \in DOMAIN styles
          /\ styles[b.style].font_size > 0
          /\ b.runs # <<>>

\* the files of each kind written in the last frame
WrittenAs(kind) ==
    {written[k] : k \in {n \in 1..Len(written) : written[n].kind = kind}}

\* the texts of the headings, paragraphs and list items of a written markup
HtmlRunTexts(html) ==
    UNION {IF html[k].tag \in {"ol", "ul"}
           THEN {html[k].items[m].text : m \in 1..Len(html[k].items)}
           ELSE IF html[k].tag \in {"pre code", "img", "hr"} THEN {}
           ELSE {html[k].text} : k \in 1..Len(html)}

\* the texts a consumer other than the preview wrote in the last frame
ExportedRunTexts ==
    UNION {HtmlRunTexts(w.html) : w \in WrittenAs("html")}
        \cup UNION {{w.pdf[k].text : k \in 1..Len(w.pdf)} : w \in WrittenAs("pdf")}

\* C13: preview, HTML export and PDF export pass the text of every run of
\* every Heading, Paragraph and List item through pdx_text: a run with a
\* character of the Arabic block is shown shaped in the preview, and no
\* consumer draws or writes its raw text.
C13_EveryRunShaped ==
    \A r \in TreeRuns(content) :
        is_arabic(r.text) =>
            /\ preview # <<>> =>
                  r.text \notin PreviewTexts /\ pdx_text(r.text) \in PreviewTexts
            /\ \A t \in ExportedRunTexts : Find(t, r.text) = -1

\* the blocks of one kind in the tree
BlocksOf(kind) == {k \in 1..Len(content) : content[k].kind = kind}

\* the Image nodes whose file cannot be opened
MissingImages == {k \in BlocksOf("Image") : content[k].path \notin ImageFiles}

\* how many texts the PDF export places for headings, paragraphs and items
RECURSIVE PdfTextBlocks(_)
PdfTextBlocks(nodes) ==
    IF nodes = <<>> THEN 0
    ELSE (IF Head(nodes).kind \in {"Heading", "Paragraph"} THEN 1
          ELSE IF Head(nodes).kind = "List" THEN Len(Head(nodes).items)
          ELSE 0) + PdfTextBlocks(Tail(nodes))

\* C14: for an Image node whose file is not available each consumer puts a
\* text in its place that carries alt_text: the preview a label, the HTML
\* export an element with the alt text, the PDF export a text of its own on
\* the page; none leaves the node out.
C14_ImagePlaceholder ==
    \A k \in MissingImages :
        /\ preview # <<>> =>
              \E w \in PreviewWidgets :
                  /\ w.widget = "label"
                  /\ w.text = PlaceholderOpen \o content[k].alt_text
                                  \o PlaceholderClose
        /\ \A f \in WrittenAs("html") :
              \E e \in 1..Len(f.html) :
                  f.html[e].tag = "img" /\ f.html[e].text = content[k].alt_text
        /\ \A f \in WrittenAs("pdf") :
              /\ Len(f.pdf) >= PdfTextBlocks(content) + Cardinality(MissingImages)
              /\ \E e \in 1..Len(f.pdf) :
                    Find(f.pdf[e].text, content[k].alt_text) # -1

\* C15: for a CodeBlock each consumer gives the language tag and the code
\* body as they are, unshaped even when the code has Arabic characters: the
\* preview as two labels, the HTML export as one element, the PDF export as
\* texts on the page.
C15_CodeVerbatim ==
    \A k \in BlocksOf("CodeBlock") :
        /\ preview # <<>> =>
              /\ \E w \in PreviewWidgets :
                    w.widget = "label" /\ w.text = content[k].language
              /\ \E w \in PreviewWidgets :
                    /\ w.widget = "label" /\ w.look = "code"
                    /\ w.text = content[k].code
        /\ \A f \in WrittenAs("html") :
              \E e \in 1..Len(f.html) :
                  /\ f.html[e].tag = "pre code"
                  /\ f.html[e].lang = content[k].language
                  /\ f.html[e].text = content[k].code
        /\ \A f \in WrittenAs("pdf") :
              /\ \E e \in 1..Len(f.pdf) : f.pdf[e].text = content[k].language
              /\ \E e \in 1..Len(f.pdf) : f.pdf[e].text = content[k].code

\* C16: after Insert Image with the chosen path p, whatever the buffer was
\* and whatever p is, the tree has an Image node whose path is p.
C16_InsertedImageInTree ==
    [][\A p \in PickedPaths :
          (pc = "idle" /\ raw_content' = raw_content \o image_markup(p)) =>
              \E k \in 1..Len(content') :
                  content'[k].kind = "Image" /\ content'[k].path = p]_vars

\* C17: images are loaded once per path: in no frame is image::open called
\* for a path it was called for before, in an earlier frame or in the same
\* one, whether that call succeeded or failed, and never for a path that is a
\* key of loaded_images.
C17_LoadOncePerPath ==
    [][\A k \in 1..Len(load_log') :
          /\ load_log'[k] \notin loaded_images
          /\ load_log'[k] \notin opened'
          /\ \A m \in 1..Len(load_log') : m # k => load_log'[m] # load_log'[k]]_vars

\* the frames in which a file action fails on a read, a write, a decoding
\* or an export
FailedAction ==
    /\ pc = "idle"
    /\ \/ \E o \in {"read_error", "decode_error"} : \E d \in FileDocs : MenuOpen(o, d)
       \/ MenuSave("write_error")
       \/ MenuSaveAs("write_error")
       \/ MenuExportHtml("write_error")
       \/ \E o \in {"export_error", "write_error"} : MenuExportPdf(o)
       \/ \E o \in {"export_error", "write_error"} : MenuExportPng(o)

\* the status messages that report a failure
FailureReports == {"PDF export failed", "PNG export failed"}

\* C18: when Open, Save, Save As or an export fails on an I/O or resource
\* error, the user is told: the status message after the frame reports the
\* failure.
C18_FailureSurfaced ==
    [][FailedAction => status_message' \in FailureReports]_vars

\* the frames in which a file action fails or its dialog is cancelled
FailedOrCancelled ==
    /\ pc = "idle"
    /\ \/ \E o \in OpenOutcomes \ {"ok"} : \E d \in FileDocs : MenuOpen(o, d)
       \/ \E o \in WriteOutcomes \ {"ok"} : MenuSave(o)
       \/ \E o \in WriteOutcomes \ {"ok"} : MenuSaveAs(o)
       \/ \E o \in WriteOutcomes \ {"ok"} : MenuExportHtml(o)
       \/ \E o \in ExportOutcomes \ {"ok"} : MenuExportPdf(o)
       \/ \E o \in ExportOutcomes \ {"ok"} : MenuExportPng(o)

C20_ScanAdvances ==
    [][(AtLine /\ pc' = "loop") => (i' > i /\ i' <= Len(lines) + 1)]_vars

\* the scan has passed a List and stands one beyond the last line, after a
\* code fence that was never closed
C20_Witness ==
    /\ pc = "loop"
    /\ i = Len(lines) + 1
    /\ Len(children) >= 2
    /\ children[Len(children)].kind = "CodeBlock"
    /\ \E k \in 1..Len(children) : children[k].kind = "List"

----------------------------------------------------------------------------
(* Properties of the scan, of the three consumers and of the view          *)

\* the blocks and list items of a tree
RECURSIVE Units(_)
Units(tree) ==
    IF tree = <<>> THEN 0
    ELSE (IF Head(tree).kind = "List" THEN Len(Head(tree).items) ELSE 1)
         + Units(Tail(tree))

\* the line before the line at i was taken as a list item
AfterListLine == i > 0 /\ GlyphListLine(Trim(lines[i]))

\* C21: every non-blank line outside a code fence becomes exactly one block
\* or list item.  A run of list lines becomes one List that ends where the
\* run ends, and the scan resumes at the line L after the run; L, when it is
\* not blank, then becomes one block of its own, directly after the List,
\* and the scan moves beyond it.  Stated of parser.rs.
C21_ListThenLine ==
    [][(AtLine /\ copy = "parser" /\ CurLine # <<>>) =>
          /\ pc' = "loop"
          /\ PushedOne
          /\ IF GlyphListLine(CurLine)
             THEN /\ Pushed.kind = "List"
                  /\ i' = ListEnd(lines, i)
                  /\ Units(children') = Units(children) + (i' - i)
             ELSE /\ Pushed.kind # "List"
                  /\ Units(children') = Units(children) + 1
                  /\ StartsWith(CurLine, Fence) \/ i' = i + 1
                  /\ AfterListLine => children[Len(children)].kind = "List"]_vars

\* the run sequences of the headings, paragraphs and list items of the tree,
\* each with the texts the PDF export may put before it (the item markers)
RunUnits ==
    UNION {IF content[k].kind \in {"Heading", "Paragraph"}
           THEN {[runs |-> content[k].runs, leads |-> {<<>>}]}
           ELSE IF content[k].kind = "List"
           THEN {[runs  |-> content[k].items[m].content,
                  leads |-> {(IF content[k].ordered THEN Decimal(m) \o <<Dot>>
                              ELSE BulletMarker) \o <<Space>>}]
                    : m \in 1..Len(content[k].items)}
           ELSE {} : k \in 1..Len(content)}

\* the order in which the runs are to be emitted: reversed exactly when
\* some run has direction RTL
Emitted(runs) == IF IsRtl(runs) THEN Reverse(runs) \o <<>> ELSE runs

\* the labels of the runs stand in the preview one after the other, in the
\* order given
ShownInOrder(runs) ==
    \E n \in 0..(Len(preview) - Len(runs)) :
        \A k \in 1..Len(runs) :
            /\ preview[n + k].widget = "label"
            /\ preview[n + k].text = pdx_text(runs[k].text)

\* the texts of the runs, shaped one by one, in the order given
ShapedConcat(runs) == Concat([k \in 1..Len(runs) |-> pdx_text(runs[k].text)])

\* C22: in the preview, in the HTML export and in the PDF export the runs of
\* a Heading, Paragraph or List item with several runs are emitted in
\* reverse order exactly when some run has direction RTL, else in their
\* order; so the three consumers emit the run texts in the same order.
C22_RunOrder ==
    \A u \in RunUnits :
        Len(u.runs) >= 2 =>
            /\ preview # <<>> => ShownInOrder(Emitted(u.runs))
            /\ \A f \in WrittenAs("html") :
                  \/ RunsConcat(Emitted(u.runs)) \in HtmlRunTexts(f.html)
                  \/ ShapedConcat(Emitted(u.runs)) \in HtmlRunTexts(f.html)
            /\ \A f \in WrittenAs("pdf") :
                  \E e \in 1..Len(f.pdf) : \E lead \in u.leads :
                      f.pdf[e].text
                          = pdx_text(lead \o RunsConcat(Emitted(u.runs)))

\* for every text the PDF export is to place, the index of the block it
\* belongs to: one text per Heading and Paragraph, one per List item
PdfOwners ==
    Concat([k \in 1..Len(content) |->
               IF content[k].kind \in {"Heading", "Paragraph"} THEN <<k>>
               ELSE IF content[k].kind = "List"
               THEN [m \in 1..Len(content[k].items) |-> k]
               ELSE <<>>])

\* a PageBreak stands between the blocks with indices a and b
BreakBetween(a, b) ==
    \E k \in (a + 1)..(b - 1) : content[k].kind = "PageBreak"

\* C23: in the PDF export a PageBreak starts a new page: no two blocks with
\* a PageBreak between them are drawn on the same page and layer.
C23_PageBreakNewPage ==
    \A f \in WrittenAs("pdf") :
        /\ Len(f.pdf) = Len(PdfOwners)
        /\ \A a, b \in 1..Len(f.pdf) :
              BreakBetween(PdfOwners[a], PdfOwners[b]) =>
                  <<f.pdf[a].page, f.pdf[a].layer>>
                      # <<f.pdf[b].page, f.pdf[b].layer>>

\* for every text the PDF export is to place, the runs it is made of
PdfRuns ==
    Concat([k \in 1..Len(content) |->
               IF content[k].kind \in {"Heading", "Paragraph"}
               THEN <<content[k].runs>>
               ELSE IF content[k].kind = "List"
               THEN [m \in 1..Len(content[k].items) |->
                        content[k].items[m].content]
               ELSE <<>>])

\* C24: the PDF export places every Heading, Paragraph and List item that
\* has a run with direction RTL at the fixed right position, and every one
\* without such a run at the left start margin (a List item at its indent
\* from there).
C24_RtlRightAnchored ==
    \A f \in WrittenAs("pdf") :
        /\ Len(f.pdf) = Len(PdfRuns)
        /\ \A e \in 1..Len(f.pdf) :
              IF IsRtl(PdfRuns[e]) THEN f.pdf[e].x = PdfXRight
              ELSE f.pdf[e].x \in
                       {PdfXStart,
                        IF content[PdfOwners[e]].kind = "List"
                        THEN PdfXStart + PdfItemIndent ELSE PdfXStart}

\* the font size of a text of the PDF export, by the kind and level of its
\* block
FixedSize(node) ==
    IF node.kind = "Heading"
    THEN (IF node.level = 1 THEN 24 ELSE IF node.level = 2 THEN 20 ELSE 16)
    ELSE 12

\* how far a block moves the vertical position of the PDF export: by its
\* kind and level, and for a List by the number of its items
FixedAdvance(node) ==
    CASE node.kind = "Heading"   -> FixedSize(node) \div 2 + PdfHeadingGap
      [] node.kind = "Paragraph" -> PdfParagraphStep
      [] node.kind = "List"      -> Len(node.items) * PdfItemStep + PdfListGap
      [] node.kind = "Divider"   -> PdfDividerStep
      [] OTHER                   -> 0

\* the vertical position at which the block with index k begins
RECURSIVE CursorAt(_)
CursorAt(k) ==
    IF k = 1 \/ content[k - 1].kind = "PageBreak" THEN PdfTop
    ELSE CursorAt(k - 1) - FixedAdvance(content[k - 1])

\* where the texts of the tree are to be placed, and at which size
FixedPlaces ==
    Concat([k \in 1..Len(content) |->
               IF content[k].kind \in {"Heading", "Paragraph"}
               THEN <<[size |-> FixedSize(content[k]), y |-> CursorAt(k)]>>
               ELSE IF content[k].kind = "List"
               THEN [m \in 1..Len(content[k].items) |->
                        [size |-> FixedSize(content[k]),
                         y    |-> CursorAt(k) - (m - 1) * PdfItemStep]]
               ELSE <<>>])

C26_EditFrameEffect ==
    [][raw_content' # raw_content =>
          /\ pc' = "idle"
          /\ ~parse_content(raw_content').panicked
          /\ content' = parse_content(raw_content').children
          /\ UNCHANGED <<metadata, styles, path, zoom_level, theme>>
          /\ loaded_images'
                 = load_images_from_content(content, loaded_images).loaded]_vars

\* C27: in every state of a session document.content is the tree the text
\* buffer parses to: content = parse_content(raw_content).
C27_TreeIsParseOfBuffer ==
    pc = "idle" =>
        /\ ~parse_content(raw_content).panicked
        /\ content = parse_content(raw_content).children

\* the labels of the preview that show runs
RunLabelsShown ==
    {n \in 1..Len(preview) :
        preview[n].widget = "label" /\ preview[n].layout \in {"rtl", "ltr"}}

\* C28: with the default StyleSheet every style name that parse_content
\* gives a Heading or Paragraph is a seeded entry with a positive font size,
\* and the preview draws no run of the parsed tree with size 0.
C28_ParsedStylesSeeded ==
    styles = StyleSheet_default =>
        /\ \A k \in 1..Len(content) :
              content[k].kind \in {"Heading", "Paragraph"} =>
                  /\ content[k].style \in DOMAIN styles
                  /\ styles[content[k].style].font_size > 0
        /\ \A n \in RunLabelsShown : preview[n].size > 0

\* C29: the PDF export places every text at a vertical position inside the
\* page, 0 <= y <= 270, however long the document is.
C29_PdfWithinPage ==
    \A f \in WrittenAs("pdf") :
        \A e \in 1..Len(f.pdf) : f.pdf[e].y >= 0 /\ f.pdf[e].y <= PdfTop

\* C30: the zoom factor stays within 0.5 and 2.5.  Zoom In adds 0.1 up to
\* 2.5, Zoom Out takes 0.1 down to 0.5, Reset and New set it to 1.0, and no
\* other frame changes it.  (In tenths.)
C30_ZoomBounded ==
    /\ [](zoom_level >= 5 /\ zoom_level <= 25)
    /\ [][/\ ZoomIn => zoom_level' = (IF zoom_level < 25 THEN zoom_level + 1
                                                          ELSE 25)
          /\ ZoomOut => zoom_level' = (IF zoom_level > 5 THEN zoom_level - 1
                                                          ELSE 5)
          /\ (ZoomReset \/ MenuNew) => zoom_level' = 10
          /\ zoom_level' # zoom_level =>
                 ZoomIn \/ ZoomOut \/ ZoomReset \/ MenuNew]_vars

\* the preview is drawn at the largest zoom factor, and at the smallest
C30_Witness ==
    /\ zoom_level \in {5, 25}
    /\ preview # <<>>
    /\ \E n \in RunLabelsShown : preview[n].size = ListSize * zoom_level

====
